---- MODULE Spec2Model ----
(***************************************************************************)
(* Model of catcli/nodes.py: the node classes of the catalog tree.         *)
(*                                                                         *)
(* A node is an index into the sequences below (the heap of node objects). *)
(* parent[n] = None (0) or the index of the parent; children[n] is the     *)
(* ordered child list kept by anytree's NodeMixin.  Strings (names, paths) *)
(* are sequences of one-character strings so that os.path.join can be      *)
(* computed as posixpath computes it.                                      *)
(***************************************************************************)
EXTENDS Integers, Sequences, FiniteSets, TLC

\* ---------------------------------------------------------------- bounds
MaxNodes == 3        \* node objects in the construction and storage specifications
MaxChildren == 2     \* length of a children list handed to a constructor
MaxSizeNodes == 3    \* node objects in the size specification
MaxSize == 4         \* largest size value a refresh may produce
MaxPathNodes == 3    \* node objects in the path specification
MaxRecords == 2      \* generic records loaded before re-typing
MaxFlagNodes == 2    \* node objects in the flag specification
MaxFrameNodes == 2   \* node objects in the frame specification

\* ------------------------------------------------------- module constants
TYPE_TOP == "top"
TYPE_FILE == "file"
TYPE_DIR == "dir"
TYPE_ARCHIVED == "arc"
TYPE_STORAGE == "storage"
TYPE_META == "meta"

KnownTypes == {TYPE_TOP, TYPE_FILE, TYPE_DIR, TYPE_ARCHIVED, TYPE_STORAGE, TYPE_META}

None == 0
sep == "/"

\* Names handed to the constructors: a plain name, the separator alone (a name
\* that begins and ends with it) and the empty name.
Names == { <<"a">>, <<"/">>, <<>> }
Sizes == {0, 1}

VARIABLES
    cls,          \* cls[n]: the Python class of node n (node.__class__)
    type,         \* type[n]: the kind discriminant (node.type)
    name,         \* name[n]
    nodesize,     \* nodesize[n]
    parent,       \* parent[n]: None or a node (anytree NodeMixin.parent)
    children,     \* children[n]: ordered children (anytree NodeMixin.children)
    flaggedAttr,  \* the _flagged attribute: "absent", "True" or "False"
    initsize,     \* history: the size node n was constructed with
    lastflag,     \* history: last flag()/unflag() call made on n
    call          \* the last call: operation, receiver, returned value, exception

vars == <<cls, type, name, nodesize, parent, children, flaggedAttr, initsize, lastflag, call>>

Nodes == 1..Len(cls)

\* args: the parent and children handed to a constructor; rets: the value
\* every (nested) get_rec_size call of the last refresh returned, by node.
NoCall == [op |-> "none", node |-> None, ret |-> None, exc |-> "none", args |-> <<>>, rets |-> <<>>]

Call(o, n, r, e) == [NoCall EXCEPT !.op = o, !.node = n, !.ret = r, !.exc = e]

\* ------------------------------------------------------------- anytree
\* The structural part of a heap: parent links and children lists.
Links(p, c) == [parent |-> p, children |-> c, exc |-> "none"]

RECURSIVE PathUp(_, _)
\* n and its ancestors, n first (NodeMixin.iter_path_reverse)
PathUp(par, n) == IF n = None THEN <<>> ELSE <<n>> \o PathUp(par, par[n])

RECURSIVE Reverse(_)
Reverse(s) == IF s = <<>> THEN <<>> ELSE Append(Reverse(Tail(s)), Head(s))

\* NodeMixin.ancestors: root first, the parent last
Ancestors(par, n) == Reverse(PathUp(par, par[n]))

Range(s) == { s[i] : i \in 1..Len(s) }

Remove(s, x) == SelectSeq(s, LAMBDA y : y # x)

\* NodeMixin.parent setter: loop check, detach from the old parent, attach
\* at the end of the new parent's children.
SetParent(lk, n, p) ==
    IF lk.parent[n] = p THEN lk
    ELSE IF p # None /\ n \in Range(PathUp(lk.parent, p))
    THEN [lk EXCEPT !.exc = "LoopError"]
    ELSE LET old == lk.parent[n]
             c1 == IF old = None THEN lk.children
                   ELSE [lk.children EXCEPT ![old] = Remove(@, n)]
             c2 == IF p = None THEN c1 ELSE [c1 EXCEPT ![p] = Append(@, n)]
         IN  [parent |-> [lk.parent EXCEPT ![n] = p], children |-> c2, exc |-> "none"]

RECURSIVE AttachAll(_, _, _)
\* for child in children: child.parent = self
AttachAll(lk, n, chs) ==
    IF chs = <<>> THEN lk
    ELSE LET r == SetParent(lk, Head(chs), n)
         IN  IF r.exc # "none" THEN r ELSE AttachAll(r, n, Tail(chs))

RECURSIVE DetachAll(_, _)
\* del self.children
DetachAll(lk, chs) ==
    IF chs = <<>> THEN lk ELSE DetachAll(SetParent(lk, Head(chs), None), Tail(chs))

NoDuplicates(s) == \A i, j \in 1..Len(s) : s[i] = s[j] => i = j

\* NodeMixin.children setter: duplicates are refused before anything moves;
\* a failure while attaching restores the old children and re-raises.
SetChildren(lk, n, chs) ==
    IF ~NoDuplicates(chs) THEN [lk EXCEPT !.exc = "TreeError"]
    ELSE LET old == lk.children[n]
             cleared == DetachAll(lk, old)
             r == AttachAll(cleared, n, chs)
         IN  IF r.exc = "none" THEN r
             ELSE LET back == DetachAll([r EXCEPT !.exc = "none"], r.children[n])
                  IN  [AttachAll(back, n, old) EXCEPT !.exc = r.exc]

\* ------------------------------------------------------------ constructors
\* The tail shared by every __init__: self.parent = parent, then
\* "if children: self.children = children".  self is the fresh node.
InitLinks(p, chs) ==
    LET self == Len(cls) + 1
        lk0 == Links(Append(parent, None), Append(children, <<>>))
        lk1 == SetParent(lk0, self, p)
    IN  IF chs = <<>> THEN lk1 ELSE SetChildren(lk1, self, chs)

\* A constructor that raised leaves the object alive only if something still
\* refers to it, that is if it was attached to its parent.
Construct(k, c, nm, sz, p, chs) ==
    LET self == Len(cls) + 1
        lk == InitLinks(p, chs)
        kept == lk.exc = "none" \/ p # None
    IN  /\ p \in Nodes \cup {None}
        /\ Range(chs) \subseteq Nodes
        /\ IF kept
           THEN /\ cls' = Append(cls, c)
                /\ type' = Append(type, k)
                /\ name' = Append(name, nm)
                /\ nodesize' = Append(nodesize, sz)
                /\ initsize' = Append(initsize, sz)
                /\ flaggedAttr' = Append(flaggedAttr, "absent")
                /\ lastflag' = Append(lastflag, "none")
                /\ parent' = lk.parent
                /\ children' = lk.children
           ELSE /\ UNCHANGED <<cls, type, name, nodesize, initsize, flaggedAttr, lastflag>>
                /\ parent' = SubSeq(lk.parent, 1, Len(cls))
                /\ children' = SubSeq(lk.children, 1, Len(cls))
        /\ call' = [Call("new", IF kept THEN self ELSE None, None, lk.exc)
                        EXCEPT !.args = [kind |-> k, parent |-> p, children |-> chs]]

NewTop(nm, chs) == Construct(TYPE_TOP, "NodeTop", nm, 0, None, chs)

NewFile(nm, sz, p, chs) == Construct(TYPE_FILE, "NodeFile", nm, sz, p, chs)

NewDir(nm, sz, p, chs) == Construct(TYPE_DIR, "NodeDir", nm, sz, p, chs)

NewArchived(nm, sz, p, chs) == Construct(TYPE_ARCHIVED, "NodeArchived", nm, sz, p, chs)

NewStorage(nm, sz, p, chs) == Construct(TYPE_STORAGE, "NodeStorage", nm, sz, p, chs)

NewMeta(nm, p, chs) == Construct(TYPE_META, "NodeMeta", nm, 0, p, chs)

Init ==
    /\ cls = <<>>
    /\ type = <<>>
    /\ name = <<>>
    /\ nodesize = <<>>
    /\ parent = <<>>
    /\ children = <<>>
    /\ flaggedAttr = <<>>
    /\ initsize = <<>>
    /\ lastflag = <<>>
    /\ call = NoCall


\* ------------------------------------------------------------ typcast_node
\* a slip in the elif chain: the archived branch assigns NodeFile
ClassOfArchivedAsFile(t) ==
    CASE t = TYPE_TOP -> "NodeTop"
      [] t = TYPE_FILE -> "NodeFile"
      [] t = TYPE_DIR -> "NodeDir"
      [] t = TYPE_ARCHIVED -> "NodeFile"
      [] t = TYPE_STORAGE -> "NodeStorage"
      [] t = TYPE_META -> "NodeMeta"
      [] OTHER -> "raise"

ClassOf(t) ==
    CASE t = TYPE_TOP -> "NodeTop"
      [] t = TYPE_FILE -> "NodeFile"
      [] t = TYPE_DIR -> "NodeDir"
      [] t = TYPE_ARCHIVED -> "NodeArchived"
      [] t = TYPE_STORAGE -> "NodeStorage"
      [] t = TYPE_META -> "NodeMeta"
      [] OTHER -> "raise"

\* typcast_node on a heap h (a record with fields cls and exc): the class of
\* n is replaced, or CatcliException is raised and nothing is assigned.
Typcast(h, n) ==
    IF ClassOf(type[n]) = "raise"
    THEN [h EXCEPT !.exc = "CatcliException"]
    ELSE [h EXCEPT !.cls[n] = ClassOf(type[n])]

TypcastNode(n) ==
    LET r == Typcast([cls |-> cls, exc |-> "none"], n)
    IN  /\ cls' = r.cls
        /\ call' = Call("typcast_node", n, None, r.exc)
        /\ UNCHANGED <<type, name, nodesize, parent, children, flaggedAttr, initsize, lastflag>>

\* A generic record produced by the importer: a NodeAny object carrying the
\* record's discriminant, not yet re-typed.
LoadRecord(t, nm, sz, p) == Construct(t, "NodeAny", nm, sz, p, <<>>)

\* ------------------------------------------------------------ get_fullpath
\* a join that puts a separator after an empty head as well
PathJoinAlwaysSep(a, b) ==
    IF b # <<>> /\ Head(b) = sep THEN b
    ELSE IF a # <<>> /\ a[Len(a)] = sep THEN a \o b
    ELSE a \o <<sep>> \o b

\* posixpath.join(a, b)
PathJoin(a, b) ==
    IF b # <<>> /\ Head(b) = sep THEN b
    ELSE IF a = <<>> \/ a[Len(a)] = sep THEN a \o b
    ELSE a \o <<sep>> \o b

RECURSIVE FullPath(_, _)
\* h: a record with fields cls, exc and path
FullPath(h, n) ==
    IF h.cls[n] = "NodeTop" THEN [h EXCEPT !.path = <<>>]
    ELSE IF parent[n] = None THEN [h EXCEPT !.path = name[n]]
    ELSE LET t == Typcast(h, parent[n])
         IN  IF t.exc # "none" THEN t
             ELSE LET r == FullPath(t, parent[n])
                  IN  IF r.exc # "none" THEN r
                      ELSE [r EXCEPT !.path = PathJoin(r.path, name[n])]

GetFullpath(n) ==
    LET r == FullPath([cls |-> cls, exc |-> "none", path |-> <<>>], n)
    IN  /\ cls' = r.cls
        /\ call' = Call("get_fullpath", n, IF r.exc = "none" THEN r.path ELSE None, r.exc)
        /\ UNCHANGED <<type, name, nodesize, parent, children, flaggedAttr, initsize, lastflag>>

\* ------------------------------------------------------------ get_rec_size
Containers == {"NodeTop", "NodeStorage", "NodeDir"}

RECURSIVE RecSize(_, _)
RECURSIVE SumChildren(_, _, _)
\* h: a record with fields cls, nodesize, rets, tot and exc.  RecSize is
\* node.get_rec_size() dispatched on the class of n; rets[n] is what it
\* returned.
RecSize(h, n) ==
    IF h.cls[n] = "NodeMeta" THEN [h EXCEPT !.rets[n] = 0]
    ELSE LET r == SumChildren(h, h.nodesize[n], children[n])
         IN  IF r.exc # "none" THEN r
             ELSE IF r.cls[n] \in Containers
                  THEN [r EXCEPT !.nodesize[n] = r.tot, !.rets[n] = r.tot]
                  ELSE [r EXCEPT !.rets[n] = r.tot]

\* the loop of NodeAny.get_rec_size over the remaining children chs
SumChildren(h, totsize, chs) ==
    IF chs = <<>> THEN [h EXCEPT !.tot = totsize]
    ELSE LET t == Typcast(h, Head(chs))
         IN  IF t.exc # "none" THEN t
             ELSE LET r == RecSize(t, Head(chs))
                  IN  IF r.exc # "none" THEN r
                      ELSE SumChildren(r, totsize + r.rets[Head(chs)], Tail(chs))

NotCalled == -1

GetRecSize(n) ==
    LET r == RecSize([cls |-> cls, nodesize |-> nodesize, exc |-> "none", tot |-> 0,
                      rets |-> [m \in Nodes |-> NotCalled]], n)
    IN  /\ \A m \in Nodes : r.nodesize[m] <= MaxSize /\ r.rets[m] <= MaxSize
        /\ cls' = r.cls
        /\ nodesize' = r.nodesize
        /\ call' = [Call("get_rec_size", n, IF r.exc = "none" THEN r.rets[n] ELSE None, r.exc)
                        EXCEPT !.rets = r.rets]
        /\ UNCHANGED <<type, name, parent, children, flaggedAttr, initsize, lastflag>>

\* -------------------------------------------------------- get_storage_node
\* The value and the exception of node.get_storage_node().
StorageNode(n) ==
    IF cls[n] = "NodeStorage" THEN [ret |-> n, exc |-> "none"]
    ELSE IF cls[n] \in {"NodeFile", "NodeDir", "NodeArchived"}
    THEN LET anc == Ancestors(parent, n)
         IN  IF Len(anc) < 2 THEN [ret |-> None, exc |-> "IndexError"]
             ELSE [ret |-> anc[2], exc |-> "none"]
    ELSE [ret |-> None, exc |-> "none"]

GetStorageNode(n) ==
    /\ call' = Call("get_storage_node", n, StorageNode(n).ret, StorageNode(n).exc)
    /\ UNCHANGED <<cls, type, name, nodesize, parent, children, flaggedAttr, initsize, lastflag>>

\* ------------------------------------------------------- flagged/flag/unflag
\* flagged(): hasattr(self, '_flagged') guards the read
FlaggedValue(a) == IF a = "absent" THEN FALSE ELSE a = "True"

Flagged(n) ==
    /\ call' = Call("flagged", n, FlaggedValue(flaggedAttr[n]), "none")
    /\ UNCHANGED <<cls, type, name, nodesize, parent, children, flaggedAttr, initsize, lastflag>>

Flag(n) ==
    /\ flaggedAttr' = [flaggedAttr EXCEPT ![n] = "True"]
    /\ lastflag' = [lastflag EXCEPT ![n] = "flag"]
    /\ call' = Call("flag", n, None, "none")
    /\ UNCHANGED <<cls, type, name, nodesize, parent, children, initsize>>

\* delattr raises AttributeError when the attribute is not there
DelAttr(a) == IF a = "absent" THEN [attr |-> a, exc |-> "AttributeError"]
              ELSE [attr |-> "absent", exc |-> "none"]

\* unflag() without the assignment that precedes the delattr
UnflagAttrDelOnly(a) == DelAttr(a)

\* unflag(): self._flagged = False, then delattr(self, '_flagged')
UnflagAttr(a) == DelAttr("False")

Unflag(n) ==
    /\ flaggedAttr' = [flaggedAttr EXCEPT ![n] = UnflagAttr(flaggedAttr[n]).attr]
    /\ lastflag' = [lastflag EXCEPT ![n] = "unflag"]
    /\ call' = Call("unflag", n, None, UnflagAttr(flaggedAttr[n]).exc)
    /\ UNCHANGED <<cls, type, name, nodesize, parent, children, initsize>>

\* ----------------------------------------------------------- specifications
ChildListsUpTo(len) == UNION { [1..k -> Nodes] : k \in 0..len }

ChildLists == ChildListsUpTo(MaxChildren)

\* no list, or one existing node
ShortChildLists == ChildListsUpTo(1)

Parents == Nodes \cup {None}

\* fewer than max objects have been built
Room(max) == Len(cls) < max

\* Construction: every constructor, any existing node or None as parent, any
\* list of existing nodes as children.
Next ==
    \/ \E chs \in ChildLists : Room(MaxNodes) /\ NewTop(<<"a">>, chs)
    \/ \E p \in Parents, chs \in ChildLists : Room(MaxNodes) /\ NewFile(<<"a">>, 0, p, chs)
    \/ \E p \in Parents, chs \in ChildLists : Room(MaxNodes) /\ NewDir(<<"a">>, 0, p, chs)
    \/ \E p \in Parents, chs \in ChildLists : Room(MaxNodes) /\ NewArchived(<<"a">>, 0, p, chs)
    \/ \E p \in Parents, chs \in ChildLists : Room(MaxNodes) /\ NewStorage(<<"a">>, 0, p, chs)
    \/ \E p \in Parents, chs \in ChildLists : Room(MaxNodes) /\ NewMeta(<<"a">>, p, chs)

Spec == Init /\ [][Next]_vars

\* Construction and get_storage_node.
NextStorage ==
    \/ Next
    \/ \E n \in Nodes : GetStorageNode(n)

SpecStorage == Init /\ [][NextStorage]_vars

\* Construction with sizes, and get_rec_size.
NextSize ==
    \/ \E chs \in ShortChildLists : Room(MaxSizeNodes) /\ NewTop(<<"a">>, chs)
    \/ \E sz \in Sizes, p \in Parents, chs \in ShortChildLists :
            Room(MaxSizeNodes) /\ NewFile(<<"a">>, sz, p, chs)
    \/ \E sz \in Sizes, p \in Parents, chs \in ShortChildLists :
            Room(MaxSizeNodes) /\ NewDir(<<"a">>, sz, p, chs)
    \/ \E sz \in Sizes, p \in Parents, chs \in ShortChildLists :
            Room(MaxSizeNodes) /\ NewArchived(<<"a">>, sz, p, chs)
    \/ \E sz \in Sizes, p \in Parents, chs \in ShortChildLists :
            Room(MaxSizeNodes) /\ NewStorage(<<"a">>, sz, p, chs)
    \/ \E p \in Parents, chs \in ShortChildLists : Room(MaxSizeNodes) /\ NewMeta(<<"a">>, p, chs)
    \/ \E n \in Nodes : GetRecSize(n)

SpecSize == Init /\ [][NextSize]_vars

\* Construction with sizes, and every query.
NextFrame ==
    \/ \E chs \in ShortChildLists : Room(MaxFrameNodes) /\ NewTop(<<"a">>, chs)
    \/ \E sz \in Sizes, p \in Parents, chs \in ShortChildLists :
            Room(MaxFrameNodes) /\ NewFile(<<"a">>, sz, p, chs)
    \/ \E sz \in Sizes, p \in Parents, chs \in ShortChildLists :
            Room(MaxFrameNodes) /\ NewDir(<<"a">>, sz, p, chs)
    \/ \E sz \in Sizes, p \in Parents, chs \in ShortChildLists :
            Room(MaxFrameNodes) /\ NewArchived(<<"a">>, sz, p, chs)
    \/ \E sz \in Sizes, p \in Parents, chs \in ShortChildLists :
            Room(MaxFrameNodes) /\ NewStorage(<<"a">>, sz, p, chs)
    \/ \E p \in Parents, chs \in ShortChildLists : Room(MaxFrameNodes) /\ NewMeta(<<"a">>, p, chs)
    \/ \E n \in Nodes : GetRecSize(n)
    \/ \E n \in Nodes : GetFullpath(n)
    \/ \E n \in Nodes : GetStorageNode(n)
    \/ \E n \in Nodes : Flag(n)
    \/ \E n \in Nodes : Unflag(n)
    \/ \E n \in Nodes : Flagged(n)

SpecFrame == Init /\ [][NextFrame]_vars

\* Construction with names, and get_fullpath.  get_fullpath is defined by
\* NodeAny and overridden by NodeTop alone: the nodes that are not Top nodes
\* are built with NodeStorage, one of the five classes that inherit it.
NextPath ==
    \/ \E nm \in Names, chs \in ShortChildLists : Room(MaxPathNodes) /\ NewTop(nm, chs)
    \/ \E nm \in Names, p \in Parents, chs \in ShortChildLists :
            Room(MaxPathNodes) /\ NewStorage(nm, 0, p, chs)
    \/ \E n \in Nodes : GetFullpath(n)

SpecPath == Init /\ [][NextPath]_vars

\* Construction, flag, unflag and flagged.
NextFlag ==
    \/ Room(MaxFlagNodes) /\ NewTop(<<"a">>, <<>>)
    \/ \E p \in Parents : Room(MaxFlagNodes) /\ NewFile(<<"a">>, 0, p, <<>>)
    \/ \E p \in Parents : Room(MaxFlagNodes) /\ NewDir(<<"a">>, 0, p, <<>>)
    \/ \E p \in Parents : Room(MaxFlagNodes) /\ NewArchived(<<"a">>, 0, p, <<>>)
    \/ \E p \in Parents : Room(MaxFlagNodes) /\ NewStorage(<<"a">>, 0, p, <<>>)
    \/ \E p \in Parents : Room(MaxFlagNodes) /\ NewMeta(<<"a">>, p, <<>>)
    \/ \E n \in Nodes : Flag(n)
    \/ \E n \in Nodes : Unflag(n)
    \/ \E n \in Nodes : Flagged(n)

SpecFlag == Init /\ [][NextFlag]_vars

\* Loading generic records and re-typing them.
RecordTypes == KnownTypes \cup {"bogus"}

NextCast ==
    \/ \E t \in RecordTypes, p \in Parents : Room(MaxRecords) /\ LoadRecord(t, <<"a">>, 0, p)
    \/ \E n \in Nodes : TypcastNode(n)

SpecCast == Init /\ [][NextCast]_vars

\* ------------------------------------------------------------------ claims
RECURSIVE SumRets(_, _)
SumRets(rets, chs) == IF chs = <<>> THEN 0 ELSE rets[Head(chs)] + SumRets(rets, Tail(chs))

LeafClasses == {"NodeFile", "NodeArchived", "NodeMeta"}
LeafTypes == {TYPE_FILE, TYPE_ARCHIVED, TYPE_META}

\* C1: every get_rec_size call on a Top, Storage or Dir node returns the sum
\* of what get_rec_size returned for its children (0 without children); a
\* Meta child contributes 0, a File or Archived child its stored size.
C1_ContainerSizeIsSumOfChildren ==
    (call.op = "get_rec_size" /\ call.exc = "none") =>
        \A c \in Nodes :
            (call.rets[c] # NotCalled /\ cls[c] \in Containers) =>
                /\ call.rets[c] = SumRets(call.rets, children[c])
                /\ \A i \in 1..Len(children[c]) :
                    LET k == children[c][i]
                    IN  /\ cls[k] = "NodeMeta" => call.rets[k] = 0
                        /\ cls[k] \in {"NodeFile", "NodeArchived"} => call.rets[k] = nodesize[k]

\* C2: get_rec_size called twice in a row on the same node returns the same
\* value the second time and leaves every stored size as the first call left it.
C2_RefreshIdempotent ==
    [][(call.op = "get_rec_size" /\ call'.op = "get_rec_size" /\ call'.node = call.node
            /\ call.exc = "none")
        => (call'.exc = "none" /\ call'.ret = call.ret /\ nodesize' = nodesize)]_vars

StorageAncestors(n) == { a \in Range(Ancestors(parent, n)) : cls[a] = "NodeStorage" }

\* C3: get_storage_node on a File, Dir or Archived node with a Storage
\* ancestor S returns S at any depth, and on a Storage node returns the node.
C3_OwnerStorageIsStorageAncestor ==
    call.op = "get_storage_node" =>
        /\ cls[call.node] = "NodeStorage" => (call.exc = "none" /\ call.ret = call.node)
        /\ cls[call.node] \in {"NodeFile", "NodeDir", "NodeArchived"} =>
            \A S \in StorageAncestors(call.node) : call.exc = "none" /\ call.ret = S

HasTopAbove(n) == \E a \in Range(Ancestors(parent, n)) : cls[a] = "NodeTop"

RECURSIVE ChainBelowTop(_)
\* the names from the child of the nearest Top ancestor down to n
ChainBelowTop(n) ==
    IF cls[n] = "NodeTop" THEN <<>> ELSE Append(ChainBelowTop(parent[n]), name[n])

RECURSIVE JoinSep(_)
\* the names joined by one separator between consecutive names
JoinSep(ps) ==
    IF Len(ps) = 1 THEN ps[1]
    ELSE JoinSep(SubSeq(ps, 1, Len(ps) - 1)) \o <<sep>> \o ps[Len(ps)]

\* C4 as stated: get_fullpath of a Top node is the empty string; of a node
\* below Top it is the names from Top's child down to the node joined by one
\* separator, whatever the names are.
C4_FullPathJoinsNames ==
    call.op = "get_fullpath" =>
        /\ call.exc = "none"
        /\ IF cls[call.node] = "NodeTop" THEN call.ret = <<>>
           ELSE HasTopAbove(call.node) => call.ret = JoinSep(ChainBelowTop(call.node))

\* no name after the first begins with the separator; no name before the last
\* is empty or ends with the separator
JoinableNames(ps) ==
    \A i \in 1..Len(ps) :
        /\ i > 1 => ~(ps[i] # <<>> /\ Head(ps[i]) = sep)
        /\ i < Len(ps) => (ps[i] # <<>> /\ ps[i][Len(ps[i])] # sep)

\* C4 amended: get_fullpath of a Top node is the empty string; of a node
\* below Top it is the names from the child of its nearest Top ancestor down
\* to the node joined by one separator, provided no name after the first
\* begins with the separator and no name before the last is empty or ends
\* with the separator.
C4_FullPathJoinsJoinableNames ==
    call.op = "get_fullpath" =>
        /\ call.exc = "none"
        /\ IF cls[call.node] = "NodeTop" THEN call.ret = <<>>
           ELSE (HasTopAbove(call.node) /\ JoinableNames(ChainBelowTop(call.node)))
                    => call.ret = JoinSep(ChainBelowTop(call.node))

C4_Witness ==
    /\ call.op = "get_fullpath"
    /\ cls[call.node] # "NodeTop"
    /\ HasTopAbove(call.node)
    /\ Len(ChainBelowTop(call.node)) >= 2
    /\ JoinableNames(ChainBelowTop(call.node))
    /\ call.ret = JoinSep(ChainBelowTop(call.node))

IllegalAttach(a) ==
    \/ a.parent # None /\ cls[a.parent] \in LeafClasses
    \/ a.kind \in LeafTypes /\ a.children # <<>>

\* C5: a constructor given a File, Archived or Meta parent, or building a
\* File, Archived or Meta with a non-empty children list, fails with
\* InvalidOperation and leaves every parent/child link as it was.
C5_IllegalAttachRejected ==
    [][(call'.op = "new" /\ IllegalAttach(call'.args))
        => (call'.exc = "InvalidOperation" /\ parent' = parent /\ children' = children)]_vars

\* C6: no flag(), unflag() or flagged() call fails, and flagged() is true
\* exactly when the last flag()/unflag() call on the node was flag().
C6_FlaggedIffLastCallFlag ==
    /\ call.op \in {"flag", "unflag", "flagged"} => call.exc = "none"
    /\ call.op = "flagged" => call.ret = (lastflag[call.node] = "flag")
    /\ \A n \in Nodes : FlaggedValue(flaggedAttr[n]) = (lastflag[n] = "flag")

C6_Witness ==
    /\ call.op = "flagged"
    /\ call.ret = FALSE
    /\ lastflag[call.node] = "unflag"
    /\ \E m \in Nodes : lastflag[m] = "flag" /\ FlaggedValue(flaggedAttr[m])

Variant(t) ==
    [top |-> "NodeTop", storage |-> "NodeStorage", dir |-> "NodeDir",
     file |-> "NodeFile", arc |-> "NodeArchived", meta |-> "NodeMeta"][t]

\* C7: typcast_node on a node whose discriminant is not one of the six known
\* kinds raises CatcliException and changes neither the node's class nor the
\* tree; on a known discriminant it succeeds and the node gets the class of
\* that kind, nothing else changing.
C7_TypcastByDiscriminant ==
    [][call'.op = "typcast_node" =>
        LET n == call'.node
        IN  /\ <<type, name, nodesize, parent, children>>' = <<type, name, nodesize, parent, children>>
            /\ \A m \in Nodes \ {n} : cls'[m] = cls[m]
            /\ IF type[n] \in {"top", "storage", "dir", "file", "arc", "meta"}
               THEN call'.exc = "none" /\ cls'[n] = Variant(type[n])
               ELSE call'.exc = "CatcliException" /\ cls'[n] = cls[n]]_vars

C7_Witness ==
    /\ call.op = "typcast_node"
    /\ call.exc = "CatcliException"
    /\ cls[call.node] = "NodeAny"
    /\ parent[call.node] # None
    /\ cls[parent[call.node]] = "NodeDir"

\* C8: every Storage node has a parent and the parent is a Top node.
C8_StorageUnderTop ==
    \A n \in Nodes : type[n] = TYPE_STORAGE => (parent[n] # None /\ cls[parent[n]] = "NodeTop")

\* C9: get_storage_node on a File, Dir or Archived node whose ancestor chain
\* has no Storage at position 1 signals StructuralViolation: it returns no
\* node that is not a Storage and does not fail with an index error.
C9_MissingStorageSignalled ==
    (call.op = "get_storage_node" /\ cls[call.node] \in {"NodeFile", "NodeDir", "NodeArchived"}) =>
        LET anc == Ancestors(parent, call.node)
        IN  (Len(anc) < 2 \/ cls[anc[2]] # "NodeStorage") => call.exc = "StructuralViolation"

\* C10: a File or Archived node keeps the size it was constructed with and
\* get_rec_size on it returns that size; a Meta node keeps size 0.
C10_LeafSizeFixed ==
    /\ \A n \in Nodes :
        /\ cls[n] \in {"NodeFile", "NodeArchived"} => nodesize[n] = initsize[n]
        /\ cls[n] = "NodeMeta" => nodesize[n] = 0
    /\ (call.op = "get_rec_size" /\ call.exc = "none") =>
        \A n \in Nodes :
            (call.rets[n] # NotCalled /\ cls[n] \in {"NodeFile", "NodeArchived"}) =>
                call.rets[n] = initsize[n]
====
